---- MODULE Spec2Model ----
(***************************************************************************)
(* A model of src/app.py: the chat-turn pipeline (user, bot), the          *)
(* configuration store kept in the process environment (save_settings,     *)
(* create_dmr_agent) and model discovery (get_available_models).           *)
(*                                                                         *)
(* Strings are TLA+ strings; a chat turn is a Python dict, modelled as a   *)
(* function whose DOMAIN is the dict's keys, so a turn may lack "content". *)
(* os.environ is a dict too: a function from the variables that are set.   *)
(***************************************************************************)
EXTENDS Integers, Sequences, FiniteSets, TLC

VARIABLES
    \* ---- the chat session (gr.Chatbot, gr.Textbox) and the running bot generator
    chatbot,              \* the transcript the chat panel holds (last value emitted)
    msg,                  \* the input textbox
    pc,                   \* position of the bot generator
    history,              \* bot's list object, mutated in place
    user_message,         \* bot's local (line 62)
    conversation_history, \* bot's local (lines 68-76)
    text,                 \* bot's local response_text / error_message
    i,                    \* loop index of the streaming loops
    cfg,                  \* locals of create_dmr_agent as called by bot
    \* ---- observations of one bot invocation
    H0,                   \* the transcript bot was invoked with
    nEmit,                \* number of transcripts yielded so far
    path,                 \* which path the invocation took
    payload,              \* <<p>> once agent.run_sync(p) has been called, else <<>>
    outcome,              \* <<o>> once the provider has answered with o, else <<>>
    agentCfg,             \* <<c>> once bot has built its provider from c, else <<>>
    propagated,           \* an exception left bot
    lastUser,             \* the most recent call of user(): arguments and results
    \* ---- the configuration store and the save_settings handler
    env,                  \* os.environ restricted to the three variables
    env0,                 \* os.environ when the process started
    spc,                  \* position of the save_settings handler
    sargs,                \* its arguments
    agent,                \* the module-level agent (the configuration it was built from)
    status,               \* the settings panel's status textbox
    lastSaved,            \* <<args>> of the last save_settings that returned
    written,              \* the starting configuration and every save_settings triple
    overlap,              \* a save_settings was active while bot read the environment
    cfgAtStart,           \* what bot's create_dmr_agent would have read atomically
    activeArgs,           \* arguments of the save_settings calls active during the reads
    savedAtStart,         \* lastSaved when bot's create_dmr_agent began
    saves,                \* number of save_settings calls so far
    \* ---- model discovery
    dropdown,             \* what get_available_models returned last
    catalog               \* <<o>>: the provider's answer o to that call, else <<>>

chatVars == <<chatbot, msg, pc, history, user_message, conversation_history, text, i,
              H0, nEmit, path, payload, outcome, propagated, lastUser>>
botCfgVars == <<cfg, agentCfg, overlap, cfgAtStart, activeArgs, savedAtStart>>
saveVars == <<env, spc, sargs, agent, status, lastSaved, written, saves>>
modelVars == <<dropdown, catalog>>
vars == <<chatVars, botCfgVars, saveVars, env0, modelVars>>

----------------------------------------------------------------------------
(* Bounds of the model *)

\* longest transcript the session starts with, and on which bot is still invoked
MaxHist == 2
\* number of save_settings calls
MaxSaves == 2
\* longest model catalog the provider returns
MaxCatalog == 3

----------------------------------------------------------------------------
(* Python strings *)

WhiteSpace == {" ", "\t", "\n"}

RECURSIVE lstrip(_)
lstrip(s) ==
    IF Len(s) > 0 /\ SubSeq(s, 1, 1) \in WhiteSpace
    THEN lstrip(SubSeq(s, 2, Len(s)))
    ELSE s

RECURSIVE rstrip(_)
rstrip(s) ==
    IF Len(s) > 0 /\ SubSeq(s, Len(s), Len(s)) \in WhiteSpace
    THEN rstrip(SubSeq(s, 1, Len(s) - 1))
    ELSE s

\* str.strip()
strip(s) == rstrip(lstrip(s))

\* s[:k]
Prefix(s, k) == SubSeq(s, 1, k)

\* s.startswith(p)
startswith(s, p) == Len(s) >= Len(p) /\ SubSeq(s, 1, Len(p)) = p

\* sub in s
Contains(s, sub) ==
    \E k \in 0..(Len(s) - Len(sub)) : SubSeq(s, k + 1, k + Len(sub)) = sub

----------------------------------------------------------------------------
(* Turns and transcripts *)

Roles == {"user", "assistant", "system"}

Turn(r, c) == [role |-> r, content |-> c]

\* a dict without the "content" key
TurnNoContent(r) == [role |-> r]

HasContent(m) == "content" \in DOMAIN m

\* msg.get("content") is truthy
Truthy(m) == HasContent(m) /\ m.content # ""

\* history.append({"role": "assistant", "content": ""})
AppendPlaceholder(h) == Append(h, Turn("assistant", ""))

\* history[-1]["content"] = c
SetLastContent(h, c) == [h EXCEPT ![Len(h)] = Turn(h[Len(h)].role, c)]

----------------------------------------------------------------------------
(* Turn capture: user() *)

\* history.append(...) in place of history + [...]
user_inplace(user_message_, history_) ==
    [ret |-> <<"", history_ \o <<Turn("user", user_message_)>>>>,
     history |-> history_ \o <<Turn("user", user_message_)>>]

\* user(user_message, history): the returned pair, and the list object that
\* was passed in as it is after the call (history + [...] builds a new list)
user(user_message_, history_) ==
    [ret |-> <<"", history_ \o <<Turn("user", user_message_)>>>>,
     history |-> history_]

----------------------------------------------------------------------------
(* The configuration store: os.environ, os.getenv, create_dmr_agent *)

EnvKeys == {"OPENAI_BASE_URL", "OPENAI_API_KEY", "OPENAI_MODEL"}

DefaultBaseUrl == "http://localhost:12434/engines/v1"
DefaultApiKey == "dmr"
DefaultModel == "ai/gemma3"

\* os.getenv(key) or default: an empty value counts as unset
getenv_or(e, key, default) ==
    IF key \in DOMAIN e /\ e[key] # "" THEN e[key] ELSE default

\* os.getenv(key, default): the default only when the variable is not set
getenv(e, key, default) == IF key \in DOMAIN e THEN e[key] ELSE default

\* os.environ[key] = value
setenv(e, key, value) ==
    [k \in (DOMAIN e) \cup {key} |-> IF k = key THEN value ELSE e[k]]

\* create_dmr_agent, line 27
read_base_url(e) ==
    [base_url |-> getenv(e, "OPENAI_BASE_URL", DefaultBaseUrl)]

\* create_dmr_agent, line 28
read_api_key(loc, e) ==
    [base_url |-> loc.base_url,
     api_key |-> getenv(e, "OPENAI_API_KEY", DefaultApiKey)]

\* the model name taken from the default, not from the environment
read_model_name_default(loc, e) ==
    [base_url |-> loc.base_url,
     api_key |-> loc.api_key,
     model_name |-> DefaultModel]

\* create_dmr_agent, line 29
read_model_name(loc, e) ==
    [base_url |-> loc.base_url,
     api_key |-> loc.api_key,
     model_name |-> getenv(e, "OPENAI_MODEL", DefaultModel)]

\* create_dmr_agent run without interruption on environment e
create_dmr_agent(e) == read_model_name(read_api_key(read_base_url(e), e), e)

\* the arguments of save_settings as the configuration they denote
Triple(u, k, m) == [base_url |-> u, api_key |-> k, model_name |-> m]

Defaults == Triple(DefaultBaseUrl, DefaultApiKey, DefaultModel)

NoLocals == <<>>

----------------------------------------------------------------------------
(* The provider: pydantic_ai Agent over an OpenAI-compatible endpoint *)

\* texts of the exceptions the provider raises
ErrorTexts == {"boom"}

\* what pydantic_ai raises when the model's output fails validation
ValidationErrorText == "bad output"

\* the message field of the model's raw structured output
RawMessages == {"", "H", "Hi!"}

\* One provider interaction: building the agent raises, run_sync raises, or
\* the model answers with a raw output.
ProviderOutcomes ==
    [kind : {"construct_error", "run_error"}, text : ErrorTexts]
    \cup [kind : {"output"}, text : RawMessages]

\* ChatResponse.message: Field(..., min_length=1)
MinLength == 1

\* message: str with no min_length
ValidAnyMessage(m) == TRUE

ValidChatResponse(m) == Len(m) >= MinLength

\* agent.run_sync with output_type=ChatResponse: an output that fails the
\* schema is not returned, the call raises.
run_sync(o) ==
    IF o.kind = "output" /\ ValidChatResponse(o.text)
    THEN [raised |-> FALSE, text |-> o.text]
    ELSE [raised |-> TRUE,
          text |-> IF o.kind = "output" THEN ValidationErrorText ELSE o.text]

----------------------------------------------------------------------------
(* The completion pipeline: bot() *)

\* the prompt stripped as the history's contents are
run_sync_prompt_stripped(user_message_, conversation_history_) == strip(user_message_)

\* a default prompt in place of a blank one
run_sync_prompt_hello(user_message_, conversation_history_) ==
    IF strip(user_message_) = "" THEN "Hello" ELSE user_message_

\* the prompt bot passes to agent.run_sync (line 84)
run_sync_prompt(user_message_, conversation_history_) == user_message_

\* what run_sync sends for a string prompt: one user message
PromptMessages(p) == <<Turn("user", p)>>

\* lines 68-76: the turns of h with role user or assistant and a truthy
\* content that is non-empty once stripped, with the stripped content
RECURSIVE ConvertHistory(_)
ConvertHistory(h) ==
    IF h = <<>> THEN <<>>
    ELSE LET m == h[Len(h)]
             rest == ConvertHistory(SubSeq(h, 1, Len(h) - 1))
         IN IF m.role \in {"user", "assistant"} /\ Truthy(m)
                /\ strip(m.content) # ""
            THEN Append(rest, Turn(m.role, strip(m.content)))
            ELSE rest

\* str(KeyError("content"))
KeyErrorText == "'content'"

\* the error text left out of the message
error_message_generic(e) == "Error from AI model"

\* line 100
error_message(e) == "Error from AI model: " \o e

\* line 113
fallback_message(e) == "Sorry, I encountered an error: " \o e

\* lines 108-113: the outer handler
OuterHandler(h, e) ==
    LET h1 == IF Len(h) = 0 \/ h[Len(h)].role # "assistant"
              THEN AppendPlaceholder(h)
              ELSE h
    IN SetLastContent(h1, fallback_message(e))

\* history.append in place of history[-1]["content"] = ...
StreamStepAppend(h, t, k) == Append(h, Turn("assistant", Prefix(t, k + 1)))

\* response_text[:i] in place of response_text[:i+1]
StreamStepShort(h, t, k) == SetLastContent(h, Prefix(t, k))

\* lines 94 and 104: one pass of a streaming loop
StreamStep(h, t, k) == SetLastContent(h, Prefix(t, k + 1))

\* lines 98-100: the inner handler catches the provider's exception
InnerExcept(e) ==
    [pc |-> "estream", text |-> error_message(e), propagated |-> FALSE]

----------------------------------------------------------------------------
(* Model discovery: get_available_models() *)

default_models == <<"ai/gemma3", "ai/qwen2.5", "ai/smollm2", "ai/llama3.2">>

Dropdown(choices_, value_) == [choices |-> choices_, value |-> value_]

\* startswith('ai') in place of startswith('ai/')
IsAiModelNoSlash(name) == startswith(name, "ai")

IsAiModel(name) == startswith(name, "ai/")

\* o: the outcome of client.models.list(), raised or the ids of models.data
get_available_models(o) ==
    IF o.raised
    THEN Dropdown(default_models, "ai/gemma3")
    ELSE LET model_names == o.ids
             ai_models == SelectSeq(model_names, IsAiModel)
         IN IF ai_models # <<>>
            THEN Dropdown(ai_models, ai_models[1])
            ELSE Dropdown(model_names,
                          IF model_names # <<>> THEN model_names[1] ELSE "ai/gemma3")

----------------------------------------------------------------------------
(* Inputs *)

Contents == {"", " ", " hi "}

Turns == {Turn(r, c) : r \in Roles, c \in Contents}
         \cup {TurnNoContent(r) : r \in Roles}

Transcripts(n) == UNION {[1..k -> Turns] : k \in 0..n}

\* what the user types into the textbox
Inputs == {"", " ", "hi"}

\* the environment the process may be started with
PresetEnv == [OPENAI_BASE_URL |-> "http://env", OPENAI_API_KEY |-> "envkey",
              OPENAI_MODEL |-> "envmodel"]

InitialEnvs == {[k \in K |-> PresetEnv[k]] : K \in {{}, {"OPENAI_MODEL"}}}

\* what the settings form may hold when Save is clicked
SaveForms == {<<"", "", "">>, <<"http://h1", "k1", "ai/qwen2.5">>}

ModelIds == {"ai/gemma3", "ai/qwen2.5", "llama", "gpt", "aix"}

Catalogs == UNION {[1..k -> ModelIds] : k \in 0..MaxCatalog}

ListOutcomes == {[raised |-> TRUE, ids |-> <<>>]}
                \cup {[raised |-> FALSE, ids |-> c] : c \in Catalogs}

----------------------------------------------------------------------------
(* Initial states *)

NoCall == [called |-> FALSE, user_message |-> "", history |-> <<>>,
           history_after |-> <<>>, ret |-> <<"", <<>>>>]

InitChat(transcripts) ==
    /\ chatbot \in transcripts
    /\ msg = ""
    /\ pc = "idle"
    /\ history = <<>>
    /\ user_message = ""
    /\ conversation_history = <<>>
    /\ text = ""
    /\ i = 0
    /\ cfg = NoLocals
    /\ H0 = <<>>
    /\ nEmit = 0
    /\ path = "none"
    /\ payload = <<>>
    /\ outcome = <<>>
    /\ agentCfg = <<>>
    /\ propagated = FALSE
    /\ lastUser = NoCall
    /\ overlap = FALSE
    /\ cfgAtStart = <<>>
    /\ activeArgs = {}
    /\ savedAtStart = <<>>

\* line 47: the module-level agent is built from the starting environment
InitStore(envs) ==
    /\ env \in envs
    /\ env0 = env
    /\ spc = "idle"
    /\ sargs = Defaults
    /\ agent = create_dmr_agent(env)
    /\ status = ""
    /\ lastSaved = <<>>
    /\ written = {create_dmr_agent(env)}
    /\ saves = 0

\* lines 179-184: the model dropdown as the settings panel is built
InitModels ==
    /\ dropdown = Dropdown(default_models, getenv(env, "OPENAI_MODEL", DefaultModel))
    /\ catalog = <<>>

----------------------------------------------------------------------------
(* The chat session *)

\* bot(chatbot) is entered
EnterBot(h) ==
    /\ pc' = "start"
    /\ history' = h
    /\ H0' = h
    /\ nEmit' = 0
    /\ path' = "none"
    /\ payload' = <<>>
    /\ outcome' = <<>>
    /\ propagated' = FALSE
    /\ user_message' = ""
    /\ conversation_history' = <<>>
    /\ text' = ""
    /\ i' = 0
    /\ cfg' = NoLocals
    /\ agentCfg' = <<>>
    /\ overlap' = FALSE
    /\ cfgAtStart' = <<>>
    /\ activeArgs' = {}
    /\ savedAtStart' = <<>>

\* line 167: msg.submit(user, ...).then(bot, ...); one completion is in
\* flight at a time, so a turn is submitted when no bot generator is running
Submit(s) ==
    /\ pc \in {"idle", "done"}
    /\ Len(chatbot) < MaxHist
    /\ LET r == user(s, chatbot)
       IN /\ msg' = r.ret[1]
          /\ chatbot' = r.ret[2]
          /\ lastUser' = [called |-> TRUE, user_message |-> s, history |-> chatbot,
                          history_after |-> r.history, ret |-> r.ret]
          /\ EnterBot(r.ret[2])
    /\ UNCHANGED <<saveVars, env0, modelVars>>

\* bot called on the transcript as it stands
BotInvoke ==
    /\ pc \in {"idle", "done"}
    /\ Len(chatbot) <= MaxHist
    /\ EnterBot(chatbot)
    /\ UNCHANGED <<chatbot, msg, lastUser, saveVars, env0, modelVars>>

\* line 171: the Clear button
Clear ==
    /\ pc \in {"idle", "done"}
    /\ chatbot # <<>>
    /\ chatbot' = <<>>
    /\ msg' = ""
    /\ pc' = "idle"
    /\ UNCHANGED <<history, user_message, conversation_history, text, i, H0, nEmit,
                   path, payload, outcome, propagated, lastUser, botCfgVars, saveVars, env0,
                   modelVars>>

\* lines 57-58: an empty history ends the generator at once
BotReturnEmpty ==
    /\ pc = "start"
    /\ history = <<>>
    /\ pc' = "done"
    /\ path' = "empty"
    /\ UNCHANGED <<chatbot, msg, history, user_message, conversation_history, text, i,
                   H0, nEmit, payload, outcome, propagated, lastUser, botCfgVars, saveVars,
                   env0, modelVars>>

\* line 62 raises KeyError: lines 108-114, one yield
BotOuterError ==
    /\ pc = "start"
    /\ history # <<>>
    /\ ~HasContent(history[Len(history)])
    /\ history' = OuterHandler(history, KeyErrorText)
    /\ chatbot' = history'
    /\ nEmit' = nEmit + 1
    /\ path' = "outer_error"
    /\ pc' = "after_outer"
    /\ UNCHANGED <<msg, user_message, conversation_history, text, i, H0, payload, outcome,
                   propagated, lastUser, botCfgVars, saveVars, env0, modelVars>>

\* lines 62-76
BotBegin ==
    /\ pc = "start"
    /\ history # <<>>
    /\ HasContent(history[Len(history)])
    /\ user_message' = history[Len(history)].content
    /\ history' = AppendPlaceholder(history)
    /\ conversation_history' = ConvertHistory(SubSeq(history', 1, Len(history') - 1))
    /\ pc' = "c27"
    /\ UNCHANGED <<chatbot, msg, text, i, H0, nEmit, path, payload, outcome, propagated,
                   lastUser, botCfgVars, saveVars, env0, modelVars>>

SaveActive == spc # "idle"

\* line 81 -> line 27
BotGetenvBaseUrl ==
    /\ pc = "c27"
    /\ cfg' = read_base_url(env)
    /\ pc' = "c28"
    /\ overlap' = SaveActive
    /\ cfgAtStart' = <<create_dmr_agent(env)>>
    /\ activeArgs' = IF SaveActive THEN {sargs} ELSE {}
    /\ savedAtStart' = lastSaved
    /\ UNCHANGED <<chatbot, msg, history, user_message, conversation_history, text, i,
                   H0, nEmit, path, payload, outcome, propagated, lastUser, agentCfg, saveVars,
                   env0, modelVars>>

\* line 28
BotGetenvApiKey ==
    /\ pc = "c28"
    /\ cfg' = read_api_key(cfg, env)
    /\ pc' = "c29"
    /\ UNCHANGED <<chatbot, msg, history, user_message, conversation_history, text, i,
                   H0, nEmit, path, payload, outcome, propagated, lastUser, agentCfg, overlap,
                   cfgAtStart, activeArgs, savedAtStart, saveVars, env0, modelVars>>

\* line 29
BotGetenvModel ==
    /\ pc = "c29"
    /\ cfg' = read_model_name(cfg, env)
    /\ pc' = "c32"
    /\ UNCHANGED <<chatbot, msg, history, user_message, conversation_history, text, i,
                   H0, nEmit, path, payload, outcome, propagated, lastUser, agentCfg, overlap,
                   cfgAtStart, activeArgs, savedAtStart, saveVars, env0, modelVars>>

\* lines 32-45 raise: lines 98-100
BotConstructError(o) ==
    /\ pc = "c32"
    /\ o.kind = "construct_error"
    /\ agentCfg' = <<cfg>>
    /\ outcome' = <<o>>
    /\ LET x == InnerExcept(o.text)
       IN pc' = x.pc /\ text' = x.text /\ propagated' = x.propagated
    /\ path' = "agent_error"
    /\ i' = 0
    /\ UNCHANGED <<chatbot, msg, history, user_message, conversation_history, H0,
                   nEmit, payload, lastUser, cfg, overlap, cfgAtStart, activeArgs,
                   savedAtStart, saveVars, env0, modelVars>>

\* lines 32-45, 84 raise: lines 98-100
BotRunError(o) ==
    /\ pc = "c32"
    /\ o.kind # "construct_error"
    /\ run_sync(o).raised
    /\ agentCfg' = <<cfg>>
    /\ outcome' = <<o>>
    /\ payload' = <<run_sync_prompt(user_message, conversation_history)>>
    /\ LET x == InnerExcept(run_sync(o).text)
       IN pc' = x.pc /\ text' = x.text /\ propagated' = x.propagated
    /\ path' = "agent_error"
    /\ i' = 0
    /\ UNCHANGED <<chatbot, msg, history, user_message, conversation_history, H0,
                   nEmit, lastUser, cfg, overlap, cfgAtStart, activeArgs,
                   savedAtStart, saveVars, env0, modelVars>>

\* lines 32-45, 84-90: the validated result's message becomes response_text
\* (the output is a ChatResponse, so line 90 is not taken)
BotRunOk(o) ==
    /\ pc = "c32"
    /\ o.kind # "construct_error"
    /\ ~run_sync(o).raised
    /\ agentCfg' = <<cfg>>
    /\ outcome' = <<o>>
    /\ payload' = <<run_sync_prompt(user_message, conversation_history)>>
    /\ text' = run_sync(o).text
    /\ pc' = "stream"
    /\ path' = "success"
    /\ i' = 0
    /\ UNCHANGED <<chatbot, msg, history, user_message, conversation_history, H0,
                   nEmit, propagated, lastUser, cfg, overlap, cfgAtStart, activeArgs,
                   savedAtStart, saveVars, env0, modelVars>>

\* lines 93-96: one character more, one yield
BotStream ==
    /\ pc = "stream"
    /\ i < Len(text)
    /\ history' = StreamStep(history, text, i)
    /\ chatbot' = history'
    /\ i' = i + 1
    /\ nEmit' = nEmit + 1
    /\ UNCHANGED <<msg, pc, user_message, conversation_history, text, H0, path,
                   payload, outcome, propagated, lastUser, botCfgVars, saveVars, env0,
                   modelVars>>

\* lines 103-106: the same for the error message
BotStreamError ==
    /\ pc = "estream"
    /\ i < Len(text)
    /\ history' = StreamStep(history, text, i)
    /\ chatbot' = history'
    /\ i' = i + 1
    /\ nEmit' = nEmit + 1
    /\ UNCHANGED <<msg, pc, user_message, conversation_history, text, H0, path,
                   payload, outcome, propagated, lastUser, botCfgVars, saveVars, env0,
                   modelVars>>

\* a loop is exhausted, or the outer handler has yielded: the generator ends
BotReturn ==
    /\ \/ pc \in {"stream", "estream"} /\ i = Len(text)
       \/ pc = "after_outer"
    /\ pc' = "done"
    /\ UNCHANGED <<chatbot, msg, history, user_message, conversation_history, text, i,
                   H0, nEmit, path, payload, outcome, propagated, lastUser, botCfgVars,
                   saveVars, env0, modelVars>>

Bot ==
    \/ BotReturnEmpty
    \/ BotOuterError
    \/ BotBegin
    \/ BotGetenvBaseUrl
    \/ BotGetenvApiKey
    \/ BotGetenvModel
    \/ \E o \in ProviderOutcomes : BotConstructError(o)
    \/ \E o \in ProviderOutcomes : BotRunError(o)
    \/ \E o \in ProviderOutcomes : BotRunOk(o)
    \/ BotStream
    \/ BotStreamError
    \/ BotReturn

Next ==
    \/ \E s \in Inputs : Submit(s)
    \/ BotInvoke
    \/ Clear
    \/ Bot

Init == InitChat(Transcripts(MaxHist)) /\ InitStore({[k \in {} |-> ""]}) /\ InitModels

Spec == Init /\ [][Next]_vars

----------------------------------------------------------------------------
(* The settings panel: save_settings(), run by its own worker thread *)

\* line 192: Save is clicked; at most one save_settings runs at a time
SaveBegin(u, k, m) ==
    /\ spc = "idle"
    /\ saves < MaxSaves
    /\ spc' = "s119"
    /\ sargs' = Triple(u, k, m)
    /\ saves' = saves + 1
    /\ written' = written \cup {Triple(u, k, m)}
    /\ IF pc \in {"c28", "c29"}
       THEN overlap' = TRUE /\ activeArgs' = activeArgs \cup {Triple(u, k, m)}
       ELSE UNCHANGED <<overlap, activeArgs>>
    /\ UNCHANGED <<chatVars, cfg, agentCfg, cfgAtStart, savedAtStart, env, agent,
                   status, lastSaved, env0, modelVars>>

\* line 119
SaveBaseUrl ==
    /\ spc = "s119"
    /\ env' = setenv(env, "OPENAI_BASE_URL", sargs.base_url)
    /\ spc' = "s120"
    /\ UNCHANGED <<chatVars, botCfgVars, sargs, agent, status, lastSaved, written,
                   saves, env0, modelVars>>

\* line 120
SaveApiKey ==
    /\ spc = "s120"
    /\ env' = setenv(env, "OPENAI_API_KEY", sargs.api_key)
    /\ spc' = "s121"
    /\ UNCHANGED <<chatVars, botCfgVars, sargs, agent, status, lastSaved, written,
                   saves, env0, modelVars>>

\* line 121
SaveModel ==
    /\ spc = "s121"
    /\ env' = setenv(env, "OPENAI_MODEL", sargs.model_name)
    /\ spc' = "s125"
    /\ UNCHANGED <<chatVars, botCfgVars, sargs, agent, status, lastSaved, written,
                   saves, env0, modelVars>>

\* lines 124-127: the module-level agent is rebuilt (nothing else writes the
\* environment meanwhile) and the status is returned
SaveRebuild ==
    /\ spc = "s125"
    /\ agent' = create_dmr_agent(env)
    /\ status' = "Settings saved and agent updated!"
    /\ lastSaved' = <<sargs>>
    /\ spc' = "idle"
    /\ UNCHANGED <<chatVars, botCfgVars, env, sargs, written, saves, env0, modelVars>>

\* lines 124-125 raise: building the agent fails, save_settings raises
SaveRebuildError ==
    /\ spc = "s125"
    /\ lastSaved' = <<sargs>>
    /\ spc' = "idle"
    /\ UNCHANGED <<chatVars, botCfgVars, env, sargs, agent, status, written, saves,
                   env0, modelVars>>

Save ==
    \/ \E f \in SaveForms : SaveBegin(f[1], f[2], f[3])
    \/ SaveBaseUrl
    \/ SaveApiKey
    \/ SaveModel
    \/ SaveRebuild
    \/ SaveRebuildError

\* the transcripts the configuration is exercised with: bot runs once on each
ConfigTranscripts ==
    LET earlier == [k \in 1..(MaxHist - 1) |-> Turn("user", "hi")]
    IN {<<>>, Append(earlier, Turn("user", "hi")), Append(earlier, TurnNoContent("user"))}

InitConfig == InitChat(ConfigTranscripts) /\ InitStore(InitialEnvs) /\ InitModels

NextConfig ==
    \/ BotInvoke
    \/ Bot
    \/ Save

SpecConfig == InitConfig /\ [][NextConfig]_vars

----------------------------------------------------------------------------
(* The settings panel: Refresh Models *)

\* line 191
RefreshModels(o) ==
    /\ catalog' = <<o>>
    /\ dropdown' = get_available_models(o)
    /\ UNCHANGED <<chatVars, botCfgVars, saveVars, env0>>

InitDiscovery == InitChat({<<>>}) /\ InitStore(InitialEnvs) /\ InitModels

NextDiscovery == \E o \in ListOutcomes : RefreshModels(o)

SpecDiscovery == InitDiscovery /\ [][NextDiscovery]_vars

----------------------------------------------------------------------------
(* Properties *)

Last(t) == t[Len(t)]

\* bot has been entered on H0 and has passed line 57
Entered == pc \notin {"idle", "start"}

EndsInUser(h) == h # <<>> /\ Last(h).role = "user"

\* t is the turns of H0, unchanged, followed by exactly one assistant turn
OneAssistantAppended(t) ==
    /\ Len(t) = Len(H0) + 1
    /\ SubSeq(t, 1, Len(H0)) = H0
    /\ Last(t).role = "assistant"
    /\ HasContent(Last(t))

\* C1: bot invoked on a transcript H0 that ends in a user turn: every
\* transcript it has emitted, and the transcript when it has finished, is H0
\* followed by exactly one assistant turn, and it does emit one, whichever
\* path it took (success, agent error, outer error).
C1_ExactlyOneAssistantTurn ==
    (Entered /\ EndsInUser(H0)) =>
        /\ nEmit >= 1 => (OneAssistantAppended(chatbot) /\ chatbot = history)
        /\ pc = "done" => (nEmit >= 1 /\ OneAssistantAppended(history))

C1_Witness ==
    /\ pc = "done"
    /\ EndsInUser(H0)
    /\ Len(H0) = 2
    /\ path = "outer_error"
    /\ nEmit = 1

\* the text of the exception the provider interaction o raises
RaisedText(o) == IF o.kind = "output" THEN ValidationErrorText ELSE o.text

\* C2: the provider (agent construction or run_sync) raises with text E: no
\* exception leaves bot, the message streamed contains E, each emitted content
\* is the prefix of that message one character longer than the one before,
\* and the final content is the whole message.
C2_ProviderErrorIsStreamed ==
    (path = "agent_error" /\ pc \in {"estream", "done"}) =>
        /\ ~propagated
        /\ Contains(text, RaisedText(outcome[1]))
        /\ nEmit = i /\ nEmit <= Len(text)
        /\ Last(history).content = Prefix(text, nEmit)
        /\ nEmit >= 1 => chatbot = history
        /\ pc = "done" => (nEmit = Len(text) /\ Last(chatbot).content = text
                           /\ Contains(Last(chatbot).content, RaisedText(outcome[1])))

C2_Witness ==
    /\ path = "agent_error"
    /\ pc = "done"
    /\ outcome[1].kind = "run_error"
    /\ outcome[1].text = "boom"
    /\ Contains(Last(chatbot).content, "boom")

\* C3: the agent returns a validated message m of length n >= 1: the k-th
\* emitted transcript has the first k characters of m as the assistant
\* content, k = 1..n, and bot finishes after exactly n of them with m itself.
C3_CharacterPacedReveal ==
    (path = "success" /\ pc \in {"stream", "done"}) =>
        LET m == outcome[1].text
        IN /\ Len(m) >= 1
           /\ nEmit <= Len(m)
           /\ nEmit >= 1 => Last(chatbot).content = Prefix(m, nEmit)
           /\ pc = "done" => (nEmit = Len(m) /\ Last(chatbot).content = m)

C3_Witness ==
    /\ path = "success"
    /\ pc = "done"
    /\ outcome[1].text = "Hi!"
    /\ nEmit = 3

\* C4: user(s, H) for a non-empty s returns "" and H followed by the user
\* turn with content s, and leaves the list H it was given as it was.
C4_UserAppendsOneTurn ==
    (lastUser.called /\ lastUser.user_message # "") =>
        /\ lastUser.ret[1] = ""
        /\ Len(lastUser.ret[2]) = Len(lastUser.history) + 1
        /\ SubSeq(lastUser.ret[2], 1, Len(lastUser.history)) = lastUser.history
        /\ Last(lastUser.ret[2]) = Turn("user", lastUser.user_message)
        /\ lastUser.history_after = lastUser.history

C4_Witness ==
    /\ lastUser.called
    /\ lastUser.user_message = "hi"
    /\ Len(lastUser.history) = 1
    /\ msg = ""

\* the turns of h with a role among user, assistant, system and a content
\* that is non-empty once trimmed
HasText(m) == m.role \in Roles /\ HasContent(m) /\ strip(m.content) # ""

Outbound(h) == SelectSeq(h, HasText)

BlankOnly(h) == Outbound(h) = <<>>

\* C5 as stated: what bot hands to the provider is the filtered list of all
\* the turns before the placeholder.
C5_PayloadIsFilteredHistory ==
    payload # <<>> => PromptMessages(payload[1]) = Outbound(H0)

\* C5 as amended: what bot hands to the provider is the content of the last
\* turn of the transcript it was invoked with, as it is.
C5_PayloadIsLastContent ==
    payload # <<>> => (HasContent(Last(H0)) /\ payload[1] = Last(H0).content)

C5_Witness ==
    /\ payload = <<" hi ">>
    /\ Len(H0) = 2
    /\ HasText(H0[1])
    /\ Last(H0).role = "user"

\* C6 as stated: the provider is never called with an empty or blank prompt,
\* a history with no text is replaced by the one message "Hello".
C6_BlankHistoryGetsHello ==
    payload # <<>> =>
        /\ strip(payload[1]) # ""
        /\ BlankOnly(H0) => payload[1] = "Hello"

\* C6 as amended: with a history that holds no text, the provider is called
\* with the last turn's empty or blank content; nothing is substituted.
C6_BlankHistoryIsPassedOn ==
    (payload # <<>> /\ BlankOnly(H0)) =>
        (strip(payload[1]) = "" /\ payload[1] # "Hello")

C6_Witness ==
    /\ payload = <<" ">>
    /\ BlankOnly(H0)
    /\ pc = "done"

\* what the bot's provider was built from, once it is built
Built == agentCfg # <<>>

\* C7 as stated: a provider construction that no save_settings overlaps
\* reads the triple of the most recent save_settings, and the three defaults
\* before any save_settings.
C7_ReadsLastSaveOrDefaults ==
    (Built /\ ~overlap) =>
        agentCfg[1] = IF savedAtStart = <<>> THEN Defaults ELSE savedAtStart[1]

\* C7 as amended: ... and, before any save_settings, what the environment
\* the process was started with gives: its value where a variable is set,
\* the default where it is not.
C7_ReadsLastSaveOrStartingEnv ==
    (Built /\ ~overlap) =>
        agentCfg[1] = IF savedAtStart = <<>>
                      THEN [base_url |-> IF "OPENAI_BASE_URL" \in DOMAIN env0
                                         THEN env0["OPENAI_BASE_URL"]
                                         ELSE DefaultBaseUrl,
                            api_key |-> IF "OPENAI_API_KEY" \in DOMAIN env0
                                        THEN env0["OPENAI_API_KEY"]
                                        ELSE DefaultApiKey,
                            model_name |-> IF "OPENAI_MODEL" \in DOMAIN env0
                                           THEN env0["OPENAI_MODEL"]
                                           ELSE DefaultModel]
                      ELSE savedAtStart[1]

\* two saves, the later one of three empty strings, read back as they are
C7_Witness ==
    /\ Built
    /\ ~overlap
    /\ Cardinality(written) = 3
    /\ savedAtStart = <<Triple("", "", "")>>
    /\ agentCfg = <<Triple("", "", "")>>

\* C8 as stated: the fallback when listing raises; else the ai/ ids if any,
\* else the whole catalog, and the default is the first of the choices.
C8_DefaultIsFirstChoice ==
    catalog # <<>> =>
        LET o == catalog[1]
            ai == SelectSeq(o.ids, LAMBDA n : Len(n) >= 3 /\ SubSeq(n, 1, 3) = "ai/")
        IN IF o.raised
           THEN dropdown = Dropdown(<<"ai/gemma3", "ai/qwen2.5", "ai/smollm2",
                                      "ai/llama3.2">>, "ai/gemma3")
           ELSE /\ dropdown.choices = IF ai # <<>> THEN ai ELSE o.ids
                /\ dropdown.choices # <<>>
                /\ dropdown.value = dropdown.choices[1]

\* C8 as amended: ... and the default is the first of the choices when
\* there is one, ai/gemma3 when the catalog is empty.
C8_DefaultIsFirstChoiceOrGemma ==
    catalog # <<>> =>
        LET o == catalog[1]
            ai == SelectSeq(o.ids, LAMBDA n : Len(n) >= 3 /\ SubSeq(n, 1, 3) = "ai/")
        IN IF o.raised
           THEN dropdown = Dropdown(<<"ai/gemma3", "ai/qwen2.5", "ai/smollm2",
                                      "ai/llama3.2">>, "ai/gemma3")
           ELSE /\ dropdown.choices = IF ai # <<>> THEN ai ELSE o.ids
                /\ dropdown.value = IF dropdown.choices # <<>>
                                    THEN dropdown.choices[1]
                                    ELSE "ai/gemma3"

C8_Witness ==
    /\ catalog = <<[raised |-> FALSE, ids |-> <<>>]>>
    /\ dropdown.choices = <<>>
    /\ dropdown.value = "ai/gemma3"

\* C9: bot has finished on a non-empty transcript: the last turn is an
\* assistant turn with a non-empty content, on every path; an empty result
\* text never gets as far as the transcript.
C9_FinishedTurnIsNonEmpty ==
    (pc = "done" /\ H0 # <<>>) =>
        /\ Last(history).role = "assistant"
        /\ HasContent(Last(history))
        /\ Last(history).content # ""
        /\ chatbot = history

\* the model answered with an empty message, and the turn is not empty
C9_Witness ==
    /\ pc = "done"
    /\ H0 # <<>>
    /\ outcome = <<[kind |-> "output", text |-> ""]>>
    /\ Last(history).content # ""

Fields == {"base_url", "api_key", "model_name"}

\* the provider was built from a triple that was never written as a whole
Mixed == Built /\ agentCfg[1] \notin written

\* C10: the three fields are read one by one while save_settings writes them
\* one by one: each field bot reads is that of the configuration as it was
\* when the reads began or of a save_settings active meanwhile, and a mixed
\* triple, which C10_Witness shows to be reachable, is read only when a
\* save_settings overlaps the reads.
C10_MixedOnlyByInterleaving ==
    Built =>
        /\ \A f \in Fields :
              \/ agentCfg[1][f] = cfgAtStart[1][f]
              \/ \E a \in activeArgs : agentCfg[1][f] = a[f]
        /\ Mixed => overlap

C10_Witness ==
    /\ Mixed
    /\ overlap
    /\ agentCfg[1].base_url = "http://h1"
    /\ agentCfg[1].model_name = DefaultModel

====
